---- MODULE Spec2Model ----
(***************************************************************************)
(* Model of the two memory-leak harnesses test-mem-leak-read.cpp and       *)
(* test-mem-leak-write.cpp: main, create_mock_file, trigger_mem, the       *)
(* worker thread running read_file / write_file, and get_current_rss_mb.   *)
(* One behaviour is one run of one of the two programs.                    *)
(***************************************************************************)
EXTENDS Integers, Sequences, FiniteSets

VARIABLES
    variant,        \* which program runs: "read" or "write"
    asserts,        \* TRUE when the build keeps assert() (NDEBUG not defined)
    page_size,      \* sysconf(_SC_PAGE_SIZE) of the platform, in bytes
    pc,             \* position of the main thread
    i,              \* loop counter of trigger_mem
    initial_rss,    \* trigger_mem's initial_rss: <<v>>, or <<>> before its definition
    current_rss,    \* trigger_mem's current_rss of the running iteration: <<v>> or <<>>
    diff_from_start,\* trigger_mem's diff_from_start of the running iteration: <<v>> or <<>>
    stat_read,      \* <<rd>>: what the get_current_rss_mb call of the running scope found
    worker,         \* the worker threads that exist: thread id -> its record
    io_result,      \* outcome of the latest read_file / write_file call
    file_exists,    \* whether the program's file path exists on disk
    file_size,      \* its size in bytes
    remove_rc,      \* <<rc>>: result of the latest std::remove, <<>> before any
    channels,       \* ports of the channel handles that are alive
    out,            \* stdout: the lines printed so far (kind and index)
    out_last,       \* <<l>>: the numbers printed on the latest iteration line
    mock_error,     \* create_mock_file wrote its error to stderr
    delete_warning, \* main wrote its "could not delete" warning to stderr
    events,         \* steps taken in the running iteration, in order
    baseline_samples, \* number of assignments made to initial_rss
    slept_ms,       \* total time spent in sleep_for
    exit_code       \* <<c>>: the value main returned, <<>> before it returns

vars == <<variant, asserts, page_size, pc, i, initial_rss, current_rss,
          diff_from_start, stat_read, worker, io_result, file_exists,
          file_size, remove_rc, channels, out, out_last, mock_error,
          delete_warning, events, baseline_samples, slept_ms, exit_code>>

----------------------------------------------------------------------------
(* Program constants *)

NUM_ITERATIONS == 50
ARBITRARY_FILE_SIZE == 50 * 1024 * 1024
READ_SIZE == 30 * 1024 * 1024
WRITE_SIZE == 30 * 1024 * 1024
CHUNK_SIZE == 1024 * 1024
BASE_PORT == 4000
SLEEP_MS == 100
LEADING_FIELDS == 23
KB_PER_MB == 1024

(* Bounds of the model *)

\* number of tokens of the modelled /proc/self/stat line
StatFields == 26
\* size in MB of a file left at the scratch path by an earlier run
StaleMB == 7

----------------------------------------------------------------------------
(* Environment: the contents /proc/self/stat can have, the page sizes *)

PageSizes == {4096, 16384}

\* a stat line: StatFields tokens, each a string of decimal digits; the
\* tokens around the resident page count differ from one another
StatLine(vsize, rss, rsslim) ==
    [n \in 1..StatFields |->
        IF n = LEADING_FIELDS THEN vsize
        ELSE IF n = LEADING_FIELDS + 1 THEN rss
        ELSE IF n = LEADING_FIELDS + 2 THEN rsslim
        ELSE <<0>>]

StatLines ==
    { StatLine(<<9, 9, 9, 9>>, <<3, 0, 0>>, <<7, 6, 8, 0>>),
      StatLine(<<3, 0, 0>>, <<7, 6, 8, 0>>, <<9, 9, 9, 9>>) }

\* values an uninitialized long can hold
IndeterminateLongs == {-2048, 512}

NoLine == <<>>

----------------------------------------------------------------------------
(* get_current_rss_mb *)

\* operator>>(long&): decimal digits to a number
RECURSIVE ParseLong(_)
ParseLong(tok) ==
    IF Len(tok) = 0 THEN 0
    ELSE 10 * ParseLong(SubSeq(tok, 1, Len(tok) - 1)) + tok[Len(tok)]

\* double -> long conversion of a quotient: truncation toward zero
TruncDiv(a, b) == IF a >= 0 THEN a \div b ELSE -((-a) \div b)

\* the token the stream extraction stores in rss: 23 strings are read first
\* (as changed: one string more is read first)
RssFieldSkipsOneMore(line) == line[LEADING_FIELDS + 2]
RssField(line) == line[LEADING_FIELDS + 1]

\* rss pages -> MB: page size in KB, times pages, over 1024
PagesToMb(rss, psize) ==
    LET page_size_kb == psize \div 1024
        resident_set == rss * page_size_kb
    IN  TruncDiv(resident_set, KB_PER_MB)

\* the value get_current_rss_mb returns when it does return; rd is what the
\* call found: rd.readable, rd.line, and rd.garbage, the value of the
\* uninitialized rss when nothing was extracted
GetCurrentRssMb(rd, psize) ==
    IF rd.readable
    THEN PagesToMb(ParseLong(RssField(rd.line)), psize)
    ELSE PagesToMb(rd.garbage, psize)

\* assert(!state.empty()) fails: nothing was extracted and the build asserts
SamplerAborts(rd) == ~rd.readable /\ asserts

\* what one call can find
StatReads ==
    { [readable |-> TRUE, line |-> l, garbage |-> 0] : l \in StatLines }
    \cup { [readable |-> FALSE, line |-> NoLine, garbage |-> g] :
             g \in IndeterminateLongs }

----------------------------------------------------------------------------
(* Output formatting *)

\* std::fixed << std::setprecision(2) of a double holding a whole number
Fixed2(x) == [neg |-> x < 0, whole |-> IF x < 0 THEN -x ELSE x, cents |-> 0]

\* the index printed on an iteration line (as changed: the raw loop counter)
LineIndexZeroBased(k) == k
LineIndex(k) == k + 1

\* diff_from_start (as changed: operands swapped)
DiffReversed(cur, init) == init - cur
DiffFromStart(cur, init) == cur - init

IterLines == SelectSeq(out, LAMBDA l : l.kind = "iteration")

\* a step of the running iteration, tagged with the iteration's number
Event(tag) == [tag |-> tag, k |-> i + 1]

----------------------------------------------------------------------------
Init ==
    /\ variant \in {"read", "write"}
    /\ asserts \in BOOLEAN
    /\ page_size \in PageSizes
    /\ pc = "main"
    /\ i = 0
    /\ initial_rss = <<>>
    /\ current_rss = <<>>
    /\ diff_from_start = <<>>
    /\ stat_read = <<>>
    /\ worker = <<>>
    /\ io_result = [k |-> 0, opened |-> FALSE, bytes |-> 0, error |-> FALSE]
    /\ file_exists \in BOOLEAN
    /\ file_size = IF file_exists THEN StaleMB * 1024 * 1024 ELSE 0
    /\ remove_rc = <<>>
    /\ channels = {}
    /\ out = <<>>
    /\ out_last = <<>>
    /\ mock_error = FALSE
    /\ delete_warning = FALSE
    /\ events = <<>>
    /\ baseline_samples = 0
    /\ slept_ms = 0
    /\ exit_code = <<>>

----------------------------------------------------------------------------
(* Files *)

Min(a, b) == IF a < b THEN a ELSE b

\* create_mock_file's loop: the bytes written by chunks of CHUNK_SIZE
RECURSIVE WriteChunks(_, _)
WriteChunks(written, size) ==
    IF written < size
    THEN Min(CHUNK_SIZE, size - written) + WriteChunks(written + CHUNK_SIZE, size)
    ELSE 0

\* size of a file opened by write_file's ofstream, before the write
\* (as changed: opened without std::ios::trunc, writing at the end)
OpenedSizeAppend(old) == old
OpenedSize(old) == 0

\* whether trigger_mem calls std::remove on its path before the workload
\* (as changed: the read variant does so too)
RemovesBeforeWorkloadAlways(v) == TRUE
RemovesBeforeWorkload(v) == v = "write"

\* bytes of the data_buffer a workload call allocates
\* (as changed: the buffer is allocated before the is_open test)
AllocatedBytesEager(opened) == IF variant = "read" THEN READ_SIZE ELSE WRITE_SIZE
AllocatedBytes(opened) ==
    IF ~opened THEN 0
    ELSE IF variant = "read" THEN READ_SIZE ELSE WRITE_SIZE

----------------------------------------------------------------------------
(* main, before trigger_mem *)

MainStart ==
    /\ pc = "main"
    /\ pc' = IF variant = "read" THEN "create_mock" ELSE "initial_sample"
    /\ UNCHANGED <<variant, asserts, page_size, i, initial_rss, current_rss,
                   diff_from_start, stat_read, worker, io_result, file_exists,
                   file_size, remove_rc, channels, out, out_last, mock_error,
                   delete_warning, events, baseline_samples, slept_ms, exit_code>>

\* create_mock_file(mock_file_path, ARBITRARY_FILE_SIZE); ok: the ofstream
\* opened, disk_ok: every chunk was written
CreateMockFile ==
    \E ok \in BOOLEAN, disk_ok \in BOOLEAN :
        /\ pc = "create_mock"
        /\ IF ok
           THEN /\ file_exists' = TRUE
                /\ file_size' = IF disk_ok
                                THEN WriteChunks(0, ARBITRARY_FILE_SIZE)
                                ELSE CHUNK_SIZE
                /\ out' = out \o <<[kind |-> "generating", k |-> 0],
                                   [kind |-> "mock_created", k |-> 0]>>
                /\ UNCHANGED mock_error
           ELSE /\ mock_error' = TRUE
                /\ out' = Append(out, [kind |-> "generating", k |-> 0])
                /\ UNCHANGED <<file_exists, file_size>>
        /\ pc' = "initial_sample"
        /\ UNCHANGED <<variant, asserts, page_size, i, initial_rss, current_rss,
                       diff_from_start, stat_read, worker, io_result, remove_rc,
                       channels, out_last, delete_warning, events,
                       baseline_samples, slept_ms, exit_code>>

----------------------------------------------------------------------------
(* trigger_mem *)

\* double initial_rss = get_current_rss_mb();
InitialSample ==
    \E rd \in StatReads :
        /\ pc = "initial_sample"
        /\ stat_read' = <<rd>>
        /\ IF SamplerAborts(rd)
           THEN /\ pc' = "aborted"
                /\ UNCHANGED <<initial_rss, baseline_samples>>
           ELSE /\ pc' = "print_header"
                /\ initial_rss' = <<GetCurrentRssMb(rd, page_size)>>
                /\ baseline_samples' = baseline_samples + 1
        /\ UNCHANGED <<variant, asserts, page_size, i, current_rss,
                       diff_from_start, worker, io_result, file_exists,
                       file_size, remove_rc, channels, out, out_last, mock_error,
                       delete_warning, events, slept_ms, exit_code>>

\* the PID line, the Initial RSS line and the separator
PrintHeader ==
    /\ pc = "print_header"
    /\ out' = out \o <<[kind |-> "pid", k |-> 0],
                       [kind |-> "initial", k |-> 0],
                       [kind |-> "separator", k |-> 0]>>
    /\ pc' = "loop_test"
    /\ UNCHANGED <<variant, asserts, page_size, i, initial_rss, current_rss,
                   diff_from_start, stat_read, worker, io_result, file_exists,
                   file_size, remove_rc, channels, out_last, mock_error,
                   delete_warning, events, baseline_samples, slept_ms, exit_code>>

\* for (...; i < NUM_ITERATIONS; ...): enter the body, or return to main
LoopTest ==
    /\ pc = "loop_test"
    /\ IF i < NUM_ITERATIONS
       THEN /\ pc' = IF RemovesBeforeWorkload(variant) THEN "remove" ELSE "spawn"
            /\ UNCHANGED exit_code
       ELSE IF variant = "read"
       THEN /\ pc' = "cleanup"
            /\ UNCHANGED exit_code
       ELSE /\ pc' = "exited"
            /\ exit_code' = <<0>>
    /\ UNCHANGED <<variant, asserts, page_size, i, initial_rss, current_rss,
                   diff_from_start, stat_read, worker, io_result, file_exists,
                   file_size, remove_rc, channels, out, out_last, mock_error,
                   delete_warning, events, baseline_samples, slept_ms>>

\* std::remove(file_path) in the loop; its result is ignored
RemoveScratch ==
    \E ok \in BOOLEAN :
        /\ pc = "remove"
        /\ IF ok /\ file_exists
           THEN /\ file_exists' = FALSE
                /\ file_size' = 0
                /\ remove_rc' = <<0>>
           ELSE /\ remove_rc' = <<-1>>
                /\ UNCHANGED <<file_exists, file_size>>
        /\ events' = Append(events, Event("remove_called"))
        /\ pc' = "spawn"
        /\ UNCHANGED <<variant, asserts, page_size, i, initial_rss, current_rss,
                       diff_from_start, stat_read, worker, io_result, channels,
                       out, out_last, mock_error, delete_warning,
                       baseline_samples, slept_ms, exit_code>>

ThreadId == i + 1

\* std::thread t(read_file / write_file, file_path);
Spawn ==
    /\ pc = "spawn"
    /\ worker' = [w \in DOMAIN worker \cup {ThreadId} |->
                    IF w = ThreadId
                    THEN [pc |-> "start", allocated |-> 0, joined |-> FALSE]
                    ELSE worker[w]]
    /\ events' = Append(events, Event("spawned"))
    /\ pc' = "join"
    /\ UNCHANGED <<variant, asserts, page_size, i, initial_rss, current_rss,
                   diff_from_start, stat_read, io_result, file_exists,
                   file_size, remove_rc, channels, out, out_last, mock_error,
                   delete_warning, baseline_samples, slept_ms, exit_code>>

\* whether t.join() returns: the thread has run to completion
\* (as changed: the main thread does not wait)
JoinReturnsAtOnce(w) == TRUE
JoinReturns(w) == worker[w].pc = "finished"

\* the worker thread opens the file: read_file's ifstream / write_file's ofstream
WorkerOpen(w) ==
    \E ok \in BOOLEAN :
        LET opened == IF variant = "read" THEN ok /\ file_exists ELSE ok IN
        /\ w \in DOMAIN worker
        /\ worker[w].pc = "start"
        /\ IF opened
           THEN /\ worker' = [worker EXCEPT ![w].pc = "opened",
                                           ![w].allocated = AllocatedBytes(TRUE)]
                /\ IF variant = "write"
                   THEN /\ file_exists' = TRUE
                        /\ file_size' = IF file_exists THEN OpenedSize(file_size) ELSE 0
                   ELSE UNCHANGED <<file_exists, file_size>>
                /\ UNCHANGED <<io_result, events>>
           ELSE /\ worker' = [worker EXCEPT ![w].pc = "finished",
                                           ![w].allocated = AllocatedBytes(FALSE)]
                /\ io_result' = [k |-> w, opened |-> FALSE, bytes |-> 0, error |-> TRUE]
                /\ events' = Append(events, [tag |-> "workload_done", k |-> w])
                /\ UNCHANGED <<file_exists, file_size>>
        /\ UNCHANGED <<variant, asserts, page_size, pc, i, initial_rss, current_rss,
                       diff_from_start, stat_read, remove_rc, channels, out,
                       out_last, mock_error, delete_warning, baseline_samples,
                       slept_ms, exit_code>>

\* the worker thread's file.read / file.write, close and return; full: the
\* transfer met no I/O error
WorkerIO(w) ==
    \E full \in BOOLEAN :
        LET bytes == IF variant = "read"
                     THEN (IF full THEN Min(READ_SIZE, file_size) ELSE 0)
                     ELSE (IF full THEN WRITE_SIZE ELSE CHUNK_SIZE) IN
        /\ w \in DOMAIN worker
        /\ worker[w].pc = "opened"
        /\ worker' = [worker EXCEPT ![w].pc = "finished"]
        /\ io_result' = [k |-> w, opened |-> TRUE, bytes |-> bytes, error |-> FALSE]
        /\ file_size' = IF variant = "write" THEN file_size + bytes ELSE file_size
        /\ events' = Append(events, [tag |-> "workload_done", k |-> w])
        /\ UNCHANGED <<variant, asserts, page_size, pc, i, initial_rss, current_rss,
                       diff_from_start, stat_read, file_exists, remove_rc,
                       channels, out, out_last, mock_error, delete_warning,
                       baseline_samples, slept_ms, exit_code>>

\* t.join();
Join ==
    /\ pc = "join"
    /\ JoinReturns(ThreadId)
    /\ worker' = [worker EXCEPT ![ThreadId].joined = TRUE]
    /\ events' = Append(events, Event("joined"))
    /\ pc' = "channel"
    /\ UNCHANGED <<variant, asserts, page_size, i, initial_rss, current_rss,
                   diff_from_start, stat_read, io_result, file_exists,
                   file_size, remove_rc, channels, out, out_last, mock_error,
                   delete_warning, baseline_samples, slept_ms, exit_code>>

\* auto channel = grpc::CreateChannel("localhost:" + (4000 + i), creds);
CreateChannel ==
    /\ pc = "channel"
    /\ channels' = channels \cup {BASE_PORT + i}
    /\ events' = Append(events, Event("channel_created"))
    /\ pc' = "sample"
    /\ UNCHANGED <<variant, asserts, page_size, i, initial_rss, current_rss,
                   diff_from_start, stat_read, worker, io_result, file_exists,
                   file_size, remove_rc, out, out_last, mock_error,
                   delete_warning, baseline_samples, slept_ms, exit_code>>

\* double current_rss = get_current_rss_mb();
\* double diff_from_start = current_rss - initial_rss;
Sample ==
    \E rd \in StatReads :
        /\ pc = "sample"
        /\ stat_read' = <<rd>>
        /\ IF SamplerAborts(rd)
           THEN /\ pc' = "aborted"
                /\ UNCHANGED <<current_rss, diff_from_start, events>>
           ELSE /\ pc' = "print"
                /\ current_rss' = <<GetCurrentRssMb(rd, page_size)>>
                /\ diff_from_start' =
                       <<DiffFromStart(GetCurrentRssMb(rd, page_size), initial_rss[1])>>
                /\ events' = Append(events, Event("sampled"))
        /\ UNCHANGED <<variant, asserts, page_size, i, initial_rss, worker,
                       io_result, file_exists, file_size, remove_rc, channels,
                       out, out_last, mock_error, delete_warning,
                       baseline_samples, slept_ms, exit_code>>

\* std::cout << "Iteration " << i + 1 << "/" << NUM_ITERATIONS << ...
PrintIteration ==
    /\ pc = "print"
    /\ out' = Append(out, [kind |-> "iteration", k |-> LineIndex(i)])
    /\ out_last' = <<[k |-> LineIndex(i), total |-> NUM_ITERATIONS,
                      current |-> Fixed2(current_rss[1]),
                      delta |-> Fixed2(diff_from_start[1])]>>
    /\ events' = Append(events, Event("printed"))
    /\ pc' = "sleep"
    /\ UNCHANGED <<variant, asserts, page_size, i, initial_rss, current_rss,
                   diff_from_start, stat_read, worker, io_result, file_exists,
                   file_size, remove_rc, channels, mock_error, delete_warning,
                   baseline_samples, slept_ms, exit_code>>

\* std::this_thread::sleep_for(std::chrono::milliseconds(100));
Sleep ==
    /\ pc = "sleep"
    /\ slept_ms' = slept_ms + SLEEP_MS
    /\ events' = Append(events, Event("pause"))
    /\ pc' = "end_body"
    /\ UNCHANGED <<variant, asserts, page_size, i, initial_rss, current_rss,
                   diff_from_start, stat_read, worker, io_result, file_exists,
                   file_size, remove_rc, channels, out, out_last, mock_error,
                   delete_warning, baseline_samples, exit_code>>

\* the closing brace of the loop body and ++i: channel, creds, address, the
\* two doubles and the joined thread object t go out of scope
EndIteration ==
    /\ pc = "end_body"
    /\ channels' = channels \ {BASE_PORT + i}
    /\ worker' = [w \in {x \in DOMAIN worker : ~worker[x].joined
                                               \/ worker[x].pc # "finished"}
                    |-> worker[w]]
    /\ current_rss' = <<>>
    /\ diff_from_start' = <<>>
    /\ stat_read' = <<>>
    /\ events' = <<>>
    /\ i' = i + 1
    /\ pc' = "loop_test"
    /\ UNCHANGED <<variant, asserts, page_size, initial_rss,
                   io_result, file_exists, file_size, remove_rc, out, out_last,
                   mock_error, delete_warning, baseline_samples, slept_ms,
                   exit_code>>

----------------------------------------------------------------------------
(* main, after trigger_mem (read variant) *)

\* if (std::remove(mock_file_path) != 0) warning; return 0;
Cleanup ==
    \E ok \in BOOLEAN :
        /\ pc = "cleanup"
        /\ IF ok /\ file_exists
           THEN /\ file_exists' = FALSE
                /\ file_size' = 0
                /\ remove_rc' = <<0>>
                /\ UNCHANGED delete_warning
           ELSE /\ remove_rc' = <<-1>>
                /\ delete_warning' = TRUE
                /\ UNCHANGED <<file_exists, file_size>>
        /\ pc' = "exited"
        /\ exit_code' = <<0>>
        /\ UNCHANGED <<variant, asserts, page_size, i, initial_rss, current_rss,
                       diff_from_start, stat_read, worker, io_result, channels,
                       out, out_last, mock_error, events, baseline_samples,
                       slept_ms>>

----------------------------------------------------------------------------
Next ==
    \/ MainStart
    \/ CreateMockFile
    \/ InitialSample
    \/ PrintHeader
    \/ LoopTest
    \/ RemoveScratch
    \/ Spawn
    \/ \E w \in DOMAIN worker : WorkerOpen(w)
    \/ \E w \in DOMAIN worker : WorkerIO(w)
    \/ Join
    \/ CreateChannel
    \/ Sample
    \/ PrintIteration
    \/ Sleep
    \/ EndIteration
    \/ Cleanup

Spec == Init /\ [][Next]_vars

----------------------------------------------------------------------------
(* Vocabulary of the properties *)

Terminated == pc \in {"exited", "aborted"}

\* the main thread is inside the loop body, past t.join()
AfterJoin == pc \in {"channel", "sample", "print", "sleep", "end_body"}

RunningWorkers == {w \in DOMAIN worker : worker[w].pc # "finished"}

IsPrefix(s, t) == Len(s) <= Len(t) /\ \A n \in 1..Len(s) : s[n] = t[n]

Tags(es) == [n \in 1..Len(es) |-> es[n].tag]

HasEvent(tag) == \E n \in 1..Len(events) : events[n].tag = tag

\* the five steps of an iteration, in their stated order
IterationOrder ==
    <<"workload_done", "channel_created", "sampled", "printed", "pause">>

OrderedEvents ==
    SelectSeq(events, LAMBDA e : \E n \in 1..Len(IterationOrder) :
                                     e.tag = IterationOrder[n])

\* megabytes from a page count, as the specification words it
MbOfPages(pages) == (pages * (page_size \div 1024)) \div 1024

\* the token at 0-indexed position pos of a stat line
FieldAt0(line, pos) == line[pos + 1]

\* the latest sampler call read the source and returned
SampleReturned ==
    /\ stat_read # <<>>
    /\ stat_read[1].readable
    /\ pc \in {"print_header", "print", "sleep", "end_body"}

SampledValue == IF pc = "print_header" THEN initial_rss[1] ELSE current_rss[1]

----------------------------------------------------------------------------
(* C1: a run that has ended has executed exactly 50 iterations and main    *)
(* has returned 0: no early exit, whatever was sampled and whichever file  *)
(* operation failed.                                                       *)
C1_FiftyIterationsThenExitZero ==
    Terminated =>
        /\ pc = "exited"
        /\ i = NUM_ITERATIONS
        /\ Len(IterLines) = NUM_ITERATIONS
        /\ exit_code = <<0>>

(* C2: when the process-status source cannot be opened or read, the        *)
(* sampler still returns a reading to its caller and the run goes on; it   *)
(* does not abort.                                                         *)
C2_SamplerFailsSilently ==
    (stat_read # <<>> /\ ~stat_read[1].readable) =>
        /\ pc # "aborted"
        /\ (i = 0 /\ pc = "print_header") => initial_rss # <<>>
        /\ pc = "print" => current_rss # <<>>

(* C3: at most one worker thread exists at any time; the worker of an      *)
(* iteration is spawned once, the main thread waits in join until it has   *)
(* completed, and no worker runs during the channel workload, the sample,  *)
(* the print, the pause or the next spawn.                                 *)
C3_OneWorkerAtATime ==
    /\ Cardinality(DOMAIN worker) <= 1
    /\ DOMAIN worker \subseteq {i + 1}
    /\ pc # "join" => RunningWorkers = {}
    /\ AfterJoin => /\ DOMAIN worker = {i + 1}
                    /\ worker[i + 1].pc = "finished"
                    /\ worker[i + 1].joined
    /\ pc \in {"loop_test", "remove", "spawn"} => DOMAIN worker = {}

\* C3 witness: the worker of iteration 2 is in its transfer while the main thread waits in join
C3_Witness ==
    /\ pc = "join"
    /\ i = 1
    /\ RunningWorkers = {2}
    /\ worker[2].pc = "opened"

(* C4: the baseline is assigned exactly once, before the first iteration,  *)
(* and never again; the delta printed on iteration line i is the RSS       *)
(* sampled in iteration i minus that baseline, both whole megabytes.       *)
C4_DeltaFromBaseline ==
    /\ baseline_samples <= 1
    /\ (baseline_samples = 0) <=> (initial_rss = <<>>)
    /\ (pc \notin {"main", "create_mock", "initial_sample", "aborted"})
           => baseline_samples = 1
    /\ Len(IterLines) > 0 => baseline_samples = 1
    /\ pc \in {"sleep", "end_body"} =>
           LET sampled == GetCurrentRssMb(stat_read[1], page_size) IN
           /\ out_last # <<>>
           /\ out_last[1].k = i + 1
           /\ out_last[1].current = [neg |-> sampled < 0,
                                     whole |-> IF sampled < 0 THEN -sampled ELSE sampled,
                                     cents |-> 0]
           /\ LET d == sampled - initial_rss[1] IN
              out_last[1].delta = [neg |-> d < 0,
                                   whole |-> IF d < 0 THEN -d ELSE d,
                                   cents |-> 0]

\* C4 witness: iteration 3 printed a delta of 29 MB: 30 MB sampled, baseline 1 MB
C4_Witness ==
    /\ pc = "sleep"
    /\ i = 2
    /\ stat_read[1].readable
    /\ initial_rss = <<1>>
    /\ current_rss = <<30>>
    /\ out_last[1].delta.whole = 29

\* state part of C5: the lines printed so far and the steps taken so far
C5_StateOrder ==
    LET n == Len(IterLines)
        h == Len(out) - n IN
    /\ n <= NUM_ITERATIONS
    /\ n = IF pc \in {"sleep", "end_body"} THEN i + 1 ELSE i
    /\ n > 0 => /\ h >= 3
                /\ out[h - 2].kind = "pid"
                /\ out[h - 1].kind = "initial"
    /\ \A j \in 1..n : out[h + j] = [kind |-> "iteration", k |-> j]
    /\ pc \in {"cleanup", "exited"} => n = NUM_ITERATIONS
    /\ IsPrefix(Tags(OrderedEvents), IterationOrder)
    /\ \A m \in 1..Len(events) : events[m].k = i + 1
    /\ slept_ms = SLEEP_MS * (IF pc = "end_body" THEN i + 1 ELSE i)

\* step part of C5: the loop counter moves only after a complete iteration
C5_StepOrder ==
    i' # i => /\ i' = i + 1
              /\ Tags(OrderedEvents) = IterationOrder
              /\ events[Len(events)].tag = "pause"
              /\ events' = <<>>

(* C5: the PID line and the Initial RSS line precede every iteration line; *)
(* the iteration lines carry the indices 1, 2, ..., 50 in that order and   *)
(* are 50 when trigger_mem returns; inside an iteration the steps occur in *)
(* the order workload completed, channel created, RSS sampled, line        *)
(* printed, 100 ms pause; the next iteration starts only after the pause.  *)
C5_OutputAndStepOrder == []C5_StateOrder /\ [][C5_StepOrder]_vars

\* C5 witness: main returned after 50 iteration lines and 50 pauses
C5_Witness ==
    /\ pc = "exited"
    /\ Len(IterLines) = NUM_ITERATIONS
    /\ slept_ms = SLEEP_MS * NUM_ITERATIONS

(* C6: read variant, fixture created: the file exists from before the      *)
(* first iteration until the loop is over, so every read_file finds it on  *)
(* disk; after main has deleted it and returned it exists no more; when    *)
(* the deletion fails main prints its warning and still returns 0.         *)
C6_FixtureLifecycle ==
    (variant = "read" /\ ~mock_error) =>
        /\ pc \in {"initial_sample", "print_header", "loop_test", "remove",
                   "spawn", "join", "channel", "sample", "print", "sleep",
                   "end_body", "cleanup"} => file_exists
        /\ \A w \in DOMAIN worker : file_exists
        /\ pc \in {"join", "channel", "sample", "print", "sleep", "end_body"}
               => remove_rc = <<>>
        /\ pc = "exited" =>
               /\ exit_code = <<0>>
               /\ i = NUM_ITERATIONS
               /\ remove_rc = <<0>> => (~file_exists /\ ~delete_warning)
               /\ remove_rc # <<0>> => (file_exists /\ delete_warning)

\* C6 witness: read variant after exit: fixture created, read in iteration 50, deleted
C6_Witness ==
    /\ variant = "read"
    /\ ~mock_error
    /\ pc = "exited"
    /\ remove_rc = <<0>>
    /\ ~file_exists
    /\ io_result.k = NUM_ITERATIONS
    /\ io_result.bytes = READ_SIZE

C8_FieldAtIndex24 ==
    SampleReturned =>
        SampledValue = MbOfPages(ParseLong(FieldAt0(stat_read[1].line, 24)))

(* C8, amended: the resident page count is the 24th token of the status    *)
(* line, which is 0-indexed position 23; the sampler returns it times the  *)
(* page size in KB, divided by 1024, as whole megabytes.                   *)
C8_FieldAtIndex23 ==
    SampleReturned =>
        SampledValue = MbOfPages(ParseLong(FieldAt0(stat_read[1].line, 23)))

\* C8 witness: a sample of 300 pages of 16 KB returned 4 MB
C8_Witness ==
    /\ SampleReturned
    /\ pc = "print"
    /\ page_size = 16384
    /\ FieldAt0(stat_read[1].line, 23) = <<3, 0, 0>>
    /\ current_rss = <<4>>

(* C9: the channel handle created in an iteration is already destroyed     *)
(* when that iteration's RSS sample is taken and when its pause begins: no *)
(* channel handle is alive at a sample.                                    *)
C9_NoChannelAliveAtSample ==
    pc \in {"sample", "sleep"} => channels = {}

\* the workload call of the running iteration returned without opening its file
OpenFailed ==
    /\ i + 1 \in DOMAIN worker
    /\ worker[i + 1].pc = "finished"
    /\ io_result.k = i + 1
    /\ ~io_result.opened

\* state part of C10
C10_StateDegraded ==
    OpenFailed =>
        /\ io_result.error
        /\ io_result.bytes = 0
        /\ worker[i + 1].allocated = 0
        /\ pc \in {"join", "channel", "sample", "print", "sleep", "end_body",
                   "aborted"}
        /\ pc # "join" => worker[i + 1].joined
        /\ pc \in {"sample", "print", "sleep", "end_body"}
               => channels = {BASE_PORT + i}
        /\ pc \in {"print", "sleep", "end_body"} => HasEvent("sampled")
        /\ pc \in {"sleep", "end_body"} =>
               /\ HasEvent("printed")
               /\ out[Len(out)] = [kind |-> "iteration", k |-> i + 1]
        /\ Len(IterLines) = IF pc \in {"sleep", "end_body"} THEN i + 1 ELSE i

\* step part of C10: the main thread takes the same steps as after a
\* successful workload; the sampler decides whether the sample returns
C10_StepDegraded ==
    (OpenFailed /\ pc' # pc) =>
        pc' = CASE pc = "join" -> "channel"
                [] pc = "channel" -> "sample"
                [] pc = "sample" -> IF SamplerAborts(stat_read'[1])
                                    THEN "aborted" ELSE "print"
                [] pc = "print" -> "sleep"
                [] pc = "sleep" -> "end_body"
                [] OTHER -> "loop_test"

(* C10: a workload call that cannot open its file prints the error and     *)
(* returns without allocating the buffer; its thread is still joined, the  *)
(* iteration goes on to the channel workload, the sample and the print,    *)
(* and the iteration count is not changed by it.                           *)
C10_OpenFailureNotFatal == []C10_StateDegraded /\ [][C10_StepDegraded]_vars

\* C10 witness: iteration 2 printed its line although its workload could not open the file
C10_Witness ==
    /\ OpenFailed
    /\ pc = "sleep"
    /\ i = 1
    /\ io_result.error
    /\ worker[2].allocated = 0
    /\ Len(IterLines) = 2

====
